---- MODULE Spec2Model ----
(***************************************************************************)
(* Logcha time tracking: the time_records table with its generated hour    *)
(* columns and constraints, calculate_weekly_summary and get_ojt_progress  *)
(* (src/supabase-migration.sql) and the timeRecordSchema validation        *)
(* (src/lib/validations.ts).                                               *)
(*                                                                         *)
(* Units.  A TIME value is the second of the day (08:00 = 28800); the      *)
(* forms produce HH:MM, whole minutes.  A DATE is a day number; day 0 is a *)
(* Monday.  A DECIMAL with two decimal places is the integer number of     *)
(* hundredths (4.00 hours = 400); hourly_rate is in hundredths of the      *)
(* currency unit, so a product of hours and rate is in ten-thousandths.    *)
(* An instant is a number of seconds since day 0, 00:00 UTC, and a zone    *)
(* offset a number of seconds east of UTC.                                 *)
(***************************************************************************)
EXTENDS Integers, FiniteSets, Sequences, TLC

VARIABLES users, trainees, time_records, weekly_summaries, current_date, summary,
          progress, selected, clock, form, issues

\* seed-admin.ts: the auth.users and companies tables and the run of the script.
VARIABLES auth_users, companies, run

\* ProtectedRoute: the value of useAuth(), the props of the mounted component, its
\* latest render (view), whether that render's effect is still to run, and the
\* routes the effect pushed.
VARIABLES auth, props, view, effect, pushed

seedVars == <<auth_users, companies, run>>

routeVars == <<auth, props, view, effect, pushed>>

vars ==
    <<users, trainees, time_records, weekly_summaries, current_date, summary, progress,
      selected, clock, form, issues, seedVars, routeVars>>

\* SQL NULL / a missing optional form field: no TIME, rate or count has this value.
NULL == -999999

\* ------------------------------------------------------------------ bounds
\* Largest day number a stored time record carries.
MaxDate == 7
\* Most rows the time_records table holds in a run.
MaxRecords == 2
\* The last day the current date advances to in the edit-window runs.
MaxToday == 9

Dates == 0..MaxDate

\* ------------------------------------------------------------ arithmetic
\* PostgreSQL rounds a numeric half away from zero; num/den with den > 0.
RoundHalfAwayFromZero(num, den) ==
    IF num >= 0
    THEN (2 * num + den) \div (2 * den)
    ELSE 0 - ((2 * (0 - num) + den) \div (2 * den))

\* A mutation of ToDecimal2: the fraction is cut off instead of rounded.
ToDecimal2Truncating(num, den) ==
    IF num >= 0 THEN (num * 100) \div den ELSE 0 - (((0 - num) * 100) \div den)

\* Storing num/den in a DECIMAL(p,2) column: hundredths, rounded.
ToDecimal2(num, den) == RoundHalfAwayFromZero(num * 100, den)

\* EXTRACT(EPOCH FROM (time_out - time_in)): seconds between two TIME values.
EpochSeconds(time_in, time_out) == time_out - time_in

\* CASE WHEN in IS NOT NULL AND out IS NOT NULL THEN EXTRACT(EPOCH ...) ELSE 0 END,
\* as the numerator of a fraction over 3600.0.
SessionSeconds(time_in, time_out) ==
    IF time_in # NULL /\ time_out # NULL THEN EpochSeconds(time_in, time_out) ELSE 0

\* ---------------------------------------------------- generated columns
am_hours(r) == ToDecimal2(SessionSeconds(r.am_time_in, r.am_time_out), 3600)

pm_hours(r) == ToDecimal2(SessionSeconds(r.pm_time_in, r.pm_time_out), 3600)

\* Computed from the time fields, not from the other generated columns: one
\* rounding of the sum of the two raw quotients.
total_hours(r) ==
    ToDecimal2(SessionSeconds(r.am_time_in, r.am_time_out)
                 + SessionSeconds(r.pm_time_in, r.pm_time_out), 3600)

\* The row as stored: the supplied columns plus the generated ones.
StoredRow(r) ==
    [trainee_id |-> r.trainee_id, date |-> r.date,
     am_time_in |-> r.am_time_in, am_time_out |-> r.am_time_out,
     pm_time_in |-> r.pm_time_in, pm_time_out |-> r.pm_time_out,
     status |-> r.status,
     am_hours |-> am_hours(r), pm_hours |-> pm_hours(r),
     total_hours |-> total_hours(r)]

\* A DECIMAL(4,2) column holds |value| < 100.
FitsDecimal42(h) == h > 0 - 10000 /\ h < 10000

\* ------------------------------------------------------ table constraints
GeneratedColumns == {"am_hours", "pm_hours", "total_hours"}

\* A mutation of generated_always: the three columns are plain columns a statement
\* may name.
generated_always_dropped(r) == TRUE

\* GENERATED ALWAYS AS (...) STORED: a statement that gives one of the three columns
\* a value (anything but DEFAULT) fails; r carries the columns the statement names.
generated_always(r) == DOMAIN r \cap GeneratedColumns = {}

\* A mutation of chk_am_times: the table without the constraint.
chk_am_times_dropped(r) == TRUE

chk_am_times(r) ==
    r.am_time_out = NULL \/ r.am_time_in = NULL \/ r.am_time_out > r.am_time_in

chk_pm_times(r) ==
    r.pm_time_out = NULL \/ r.pm_time_in = NULL \/ r.pm_time_out > r.pm_time_in

\* A mutation of unique_trainee_date: the table without the constraint.
unique_trainee_date_dropped(r, others) == TRUE

\* UNIQUE (trainee_id, date) against the rows in others.
unique_trainee_date(r, others) ==
    \A o \in others : ~(o.trainee_id = r.trainee_id /\ o.date = r.date)

fk_time_records_trainee(r) == r.trainee_id \in DOMAIN trainees

\* Everything the table itself demands of a new or changed row.
RowAdmitted(r, others) ==
    /\ generated_always(r)
    /\ fk_time_records_trainee(r)
    /\ unique_trainee_date(r, others)
    /\ chk_am_times(r)
    /\ chk_pm_times(r)
    /\ FitsDecimal42(am_hours(r))
    /\ FitsDecimal42(pm_hours(r))
    /\ FitsDecimal42(total_hours(r))

\* ------------------------------------------------------------- trainees
TraineeIds == {1, 2}

\* auth.uid() of the signed-in users; "admin" owns no trainee row.
Users == {"u1", "u2", "admin"}

\* trainees.user_id: trainee 1 is user u1, trainee 2 is user u2.
OwnerOf(t) == IF t = 1 THEN "u1" ELSE "u2"

TraineeTypes == {"paid_intern", "unpaid_intern", "ojt"}

\* The trainee rows the runs start from: every trainee_type, hourly_rate NULL or
\* 75.50, max_weekly_hours 6 (INTEGER NOT NULL).
TraineeRows(t) ==
    [user_id : {OwnerOf(t)}, trainee_type : TraineeTypes,
     hourly_rate : {NULL, 7550}, max_weekly_hours : {6},
     total_required_hours : {NULL}, status : {"active"}, company_id : {1}]

\* SELECT * INTO trainee_record FROM trainees WHERE id = p_trainee_id: the row, or
\* a record of NULLs when there is none.
TraineeRecord(p_trainee_id) ==
    IF p_trainee_id \in DOMAIN trainees
    THEN trainees[p_trainee_id]
    ELSE [user_id |-> "", trainee_type |-> "", hourly_rate |-> NULL,
          max_weekly_hours |-> NULL, total_required_hours |-> NULL, status |-> "",
          company_id |-> NULL]

\* The users rows of the signed-in users: u1 and u2 are trainees, admin is a company
\* admin; the login name stands for the email address.
DefaultUsers ==
    [uid \in Users |->
        [role |-> IF uid = "admin" THEN "company_admin" ELSE "trainee", email |-> uid]]

\* ---------------------------------------------------- row-level policies
\* A mutation of OwnsTrainee: the trainee row is not matched against auth.uid().
OwnsTraineeAnyUser(uid, trainee_id) == trainee_id \in DOMAIN trainees

\* EXISTS (SELECT 1 FROM trainees t WHERE t.id = trainee_id AND t.user_id = auth.uid())
OwnsTrainee(uid, trainee_id) ==
    trainee_id \in DOMAIN trainees /\ trainees[trainee_id].user_id = uid

\* "Trainees can view their own time records": FOR SELECT USING the trainee row is
\* the user's own, or the user is a company_admin who has a trainee row in the
\* company of the record's trainee.
SelectPolicy(uid, r) ==
    \/ OwnsTrainee(uid, r.trainee_id)
    \/ \E t \in DOMAIN trainees :
          /\ trainees[t].user_id = uid
          /\ uid \in DOMAIN users /\ users[uid].role = "company_admin"
          /\ r.trainee_id \in DOMAIN trainees
          /\ trainees[t].company_id = trainees[r.trainee_id].company_id

\* time_records has row level security enabled and no policy FOR DELETE: no row is
\* deletable by a signed-in user.
DeletePolicy(uid, r) == FALSE

\* "Trainees can insert their own time records": FOR INSERT WITH CHECK.
InsertPolicy(uid, r) == OwnsTrainee(uid, r.trainee_id)

\* "Trainees can update their own recent time records": FOR UPDATE USING; with no
\* WITH CHECK clause the USING expression also checks the row as changed.
UpdatePolicy(uid, r) ==
    OwnsTrainee(uid, r.trainee_id) /\ r.date >= current_date - 7

\* ------------------------------------------------ calculate_weekly_summary
\* A mutation of SumTotalHours: the rows of status absent are left out of the sum.
RECURSIVE SumTotalHoursOfAttended(_)
SumTotalHoursOfAttended(rows) ==
    IF rows = {} THEN NULL
    ELSE LET tr == CHOOSE x \in rows : TRUE
             rest == SumTotalHoursOfAttended(rows \ {tr})
         IN  IF tr.status = "absent" THEN rest
             ELSE IF rest = NULL THEN tr.total_hours ELSE tr.total_hours + rest

\* SUM(tr.total_hours) over a set of rows; NULL over no rows.
RECURSIVE SumTotalHours(_)
SumTotalHours(rows) ==
    IF rows = {} THEN NULL
    ELSE LET tr == CHOOSE x \in rows : TRUE
             rest == SumTotalHours(rows \ {tr})
         IN  IF rest = NULL THEN tr.total_hours ELSE tr.total_hours + rest

COALESCE(v, d) == IF v # NULL THEN v ELSE d

\* LEAST(a, b): the smaller; a NULL argument is ignored.
LEAST(a, b) ==
    IF a = NULL THEN b ELSE IF b = NULL THEN a ELSE IF a <= b THEN a ELSE b

\* a * b, NULL when either factor is.
Times(a, b) == IF a = NULL \/ b = NULL THEN NULL ELSE a * b

\* An INTEGER number of hours as hundredths of an hour.
HoursToHundredths(h) == IF h = NULL THEN NULL ELSE h * 100

\* A mutation of InWeek: the week is taken to end 7 days after its start.
InWeekOfEightDays(tr, p_trainee_id, p_week_start) ==
    /\ tr.trainee_id = p_trainee_id
    /\ tr.date >= p_week_start
    /\ tr.date <= p_week_start + 7

\* WHERE tr.trainee_id = p_trainee_id
\*   AND tr.date BETWEEN p_week_start AND (p_week_start + INTERVAL '6 days')::DATE
InWeek(tr, p_trainee_id, p_week_start) ==
    /\ tr.trainee_id = p_trainee_id
    /\ tr.date >= p_week_start
    /\ tr.date <= p_week_start + 6

\* A mutation of BillableHours: the cap is applied to paid interns only.
BillableHoursPaidOnly(trainee_record, total) ==
    IF trainee_record.trainee_type = "paid_intern"
    THEN LEAST(total, HoursToHundredths(trainee_record.max_weekly_hours))
    ELSE total

\* The second output column; total is COALESCE(SUM(tr.total_hours), 0).
BillableHours(trainee_record, total) ==
    IF trainee_record.trainee_type \in {"paid_intern", "unpaid_intern"}
    THEN LEAST(total, HoursToHundredths(trainee_record.max_weekly_hours))
    ELSE total

\* A mutation of GrossPay: every hour worked is paid, the cap is not applied.
GrossPayUncapped(trainee_record, total) ==
    IF trainee_record.trainee_type = "paid_intern"
    THEN Times(total, trainee_record.hourly_rate)
    ELSE 0

\* The third output column, in ten-thousandths: the OUT column's (10,2) is dropped by
\* CREATE FUNCTION, so the product keeps its four decimal places.
GrossPay(trainee_record, total) ==
    IF trainee_record.trainee_type = "paid_intern"
    THEN Times(LEAST(total, HoursToHundredths(trainee_record.max_weekly_hours)),
               trainee_record.hourly_rate)
    ELSE 0

\* A mutation of DaysPresent: every record of the week is counted (COUNT(*)).
DaysPresentCountingAll(rows) == Cardinality(rows)

\* COUNT(CASE WHEN tr.status IN ('present', 'half_day_am', 'half_day_pm') THEN 1 END)
DaysPresent(rows) ==
    Cardinality({tr \in rows : tr.status \in {"present", "half_day_am", "half_day_pm"}})

\* The one row the function returns, with the arguments of the call.
calculate_weekly_summary(p_trainee_id, p_week_start) ==
    LET trainee_record == TraineeRecord(p_trainee_id)
        rows == {tr \in time_records : InWeek(tr, p_trainee_id, p_week_start)}
        total == COALESCE(SumTotalHours(rows), 0)
    IN  [p_trainee_id |-> p_trainee_id, p_week_start |-> p_week_start,
         total_hours_worked |-> total,
         billable_hours |-> BillableHours(trainee_record, total),
         gross_pay |-> GrossPay(trainee_record, total),
         days_present |-> DaysPresent(rows)]

\* summary holds the row the last call returned for as long as the table is as the
\* call read it; NoSummary once a statement has changed the table, and at the start.
NoSummary ==
    [p_trainee_id |-> NULL, p_week_start |-> NULL, total_hours_worked |-> NULL,
     billable_hours |-> NULL, gross_pay |-> NULL, days_present |-> NULL]

\* ------------------------------------------------------- weekly_summaries
\* A mutation of unique_trainee_week: the table without the constraint.
unique_trainee_week_dropped(w, others) == TRUE

\* UNIQUE (trainee_id, week_start_date) against the rows in others.
unique_trainee_week(w, others) ==
    \A o \in others :
        ~(o.trainee_id = w.trainee_id /\ o.week_start_date = w.week_start_date)

\* A value in ten-thousandths stored in a DECIMAL(10,2) column: hundredths, rounded;
\* NULL stays NULL.
ToStoredMoney(v) == IF v = NULL THEN NULL ELSE RoundHalfAwayFromZero(v, 100)

\* The weekly_summaries row of a computed summary: week_end_date is six days after
\* week_start_date; the hour columns are DECIMAL(6,2), gross_pay DECIMAL(10,2).
WeeklySummaryRow(s) ==
    [trainee_id |-> s.p_trainee_id, week_start_date |-> s.p_week_start,
     week_end_date |-> s.p_week_start + 6,
     total_hours_worked |-> s.total_hours_worked,
     billable_hours |-> s.billable_hours,
     gross_pay |-> ToStoredMoney(s.gross_pay),
     days_present |-> s.days_present]

\* ------------------------------------------------------- get_ojt_progress
\* t.total_required_hours - COALESCE(SUM(tr.total_hours), 0), in hundredths of an
\* hour; NULL when total_required_hours is.
RemainingHours(total_required_hours, rendered) ==
    IF total_required_hours = NULL THEN NULL
    ELSE HoursToHundredths(total_required_hours) - rendered

\* A mutation of CompletionPercentage: the percentage is cut off after two decimals.
CompletionPercentageTruncating(total_required_hours, rendered) ==
    IF total_required_hours = NULL THEN NULL
    ELSE IF total_required_hours > 0
         THEN (rendered * 100) \div total_required_hours
         ELSE 0 - ((rendered * 100) \div (0 - total_required_hours))

\* ROUND((COALESCE(SUM(tr.total_hours), 0) / t.total_required_hours) * 100, 2) in
\* hundredths of a percent, for total_required_hours other than 0; NULL when it is
\* NULL.  rendered is in hundredths of an hour, so the percentage is
\* rendered / total_required_hours.  The numeric quotient carries at least 16
\* significant digits, which is exact on every tie of the second decimal and closer
\* to the true quotient than any non-tie is to a tie, so the one rounding below is
\* the value ROUND returns.
CompletionPercentage(total_required_hours, rendered) ==
    IF total_required_hours = NULL THEN NULL
    ELSE IF total_required_hours > 0
         THEN RoundHalfAwayFromZero(rendered * 100, total_required_hours)
         ELSE RoundHalfAwayFromZero(0 - rendered * 100, 0 - total_required_hours)

\* A mutation of OjtSelected: the status of the trainee is not looked at.
OjtSelectedAnyStatus(p_trainee_id) ==
    {t \in DOMAIN trainees :
        /\ trainees[t].trainee_type = "ojt"
        /\ (p_trainee_id = NULL \/ t = p_trainee_id)}

\* WHERE t.trainee_type = 'ojt' AND t.status = 'active'
\*   AND (p_trainee_id IS NULL OR t.id = p_trainee_id): the ids of the groups.  Every
\* trainee has its users row (user_id NOT NULL REFERENCES users), so the JOIN drops
\* none.
OjtSelected(p_trainee_id) ==
    {t \in DOMAIN trainees :
        /\ trainees[t].trainee_type = "ojt"
        /\ trainees[t].status = "active"
        /\ (p_trainee_id = NULL \/ t = p_trainee_id)}

\* The output row of the group of trainee t: the LEFT JOIN gives a trainee without
\* records one row of NULLs, over which SUM is NULL.
OjtProgressRow(t) ==
    LET rendered == COALESCE(SumTotalHours({tr \in time_records : tr.trainee_id = t}), 0)
        required == trainees[t].total_required_hours
    IN  [trainee_id |-> t,
         total_required_hours |-> required,
         hours_rendered |-> rendered,
         remaining_hours |-> RemainingHours(required, rendered),
         completion_percentage |-> CompletionPercentage(required, rendered)]

\* The call's outcome: the rows returned, or the failure of the whole query with
\* 'division by zero' when a selected trainee has total_required_hours = 0.
get_ojt_progress(p_trainee_id) ==
    IF \E t \in OjtSelected(p_trainee_id) : trainees[t].total_required_hours = 0
    THEN [called |-> TRUE, p_trainee_id |-> p_trainee_id, failed |-> TRUE, rows |-> {}]
    ELSE [called |-> TRUE, p_trainee_id |-> p_trainee_id, failed |-> FALSE,
          rows |-> {OjtProgressRow(t) : t \in OjtSelected(p_trainee_id)}]

\* No call of get_ojt_progress has returned since the table last changed.
NoProgress == [called |-> FALSE, p_trainee_id |-> NULL, failed |-> FALSE, rows |-> {}]

\* No SELECT on time_records has returned since the table last changed.
NoSelection == [uid |-> "", rows |-> {}]

\* ------------------------------------------------------ timeRecordSchema
\* 2000-01-01 as a day number: day 0 is Monday 2000-01-03.
Jan1_2000 == 0 - 2

\* new Date(`2000-01-01T${time}:00`): a date-time without offset is local time on
\* a machine tz seconds east of UTC; the value is the instant.
DateOfLocalTime(time, tz) == Jan1_2000 * 86400 + time - tz

\* new Date(data.date): a date-only string is midnight UTC of that day.
DateOfDateOnly(date) == date * 86400

\* A mutation of TodayLocalMidnight: the last second of the local day.
TodayLocalEndOfDay(now, tz) == ((now + tz) \div 86400) * 86400 - tz + 86399

\* today = new Date(); today.setHours(0, 0, 0, 0): local midnight of the local day.
TodayLocalMidnight(now, tz) == ((now + tz) \div 86400) * 86400 - tz

\* A non-empty string is truthy; a missing field (undefined or '') is not.
Truthy(field) == field # NULL

\* A mutation of AmOrderIssue: equal times are let through (< for <=).
AmOrderIssueStrict(data, tz) ==
    IF /\ Truthy(data.am_time_in) /\ Truthy(data.am_time_out)
       /\ DateOfLocalTime(data.am_time_out, tz) < DateOfLocalTime(data.am_time_in, tz)
    THEN {"am_time_out"} ELSE {}

\* "Validate AM session": the issue's path, 'AM time out must be after AM time in'.
AmOrderIssue(data, tz) ==
    IF /\ Truthy(data.am_time_in) /\ Truthy(data.am_time_out)
       /\ DateOfLocalTime(data.am_time_out, tz) <= DateOfLocalTime(data.am_time_in, tz)
    THEN {"am_time_out"} ELSE {}

\* "Validate PM session": 'PM time out must be after PM time in'.
PmOrderIssue(data, tz) ==
    IF /\ Truthy(data.pm_time_in) /\ Truthy(data.pm_time_out)
       /\ DateOfLocalTime(data.pm_time_out, tz) <= DateOfLocalTime(data.pm_time_in, tz)
    THEN {"pm_time_out"} ELSE {}

\* A mutation of OverlapIssue: a PM session starting when the AM one ends passes.
OverlapIssueStrict(data, tz) ==
    IF /\ Truthy(data.am_time_out) /\ Truthy(data.pm_time_in)
       /\ DateOfLocalTime(data.pm_time_in, tz) < DateOfLocalTime(data.am_time_out, tz)
    THEN {"pm_time_in"} ELSE {}

\* "Validate PM is after AM": 'PM time in should be after AM time out'.
OverlapIssue(data, tz) ==
    IF /\ Truthy(data.am_time_out) /\ Truthy(data.pm_time_in)
       /\ DateOfLocalTime(data.pm_time_in, tz) <= DateOfLocalTime(data.am_time_out, tz)
    THEN {"pm_time_in"} ELSE {}

\* A mutation of PresentIssue: both sessions are demanded (|| for &&).
PresentIssueBothSessions(data) ==
    IF /\ data.status = "present"
       /\ \/ (~Truthy(data.am_time_in) \/ ~Truthy(data.am_time_out))
          \/ (~Truthy(data.pm_time_in) \/ ~Truthy(data.pm_time_out))
    THEN {"status"} ELSE {}

\* 'At least one complete session (AM or PM) is required for present status'.
PresentIssue(data) ==
    IF /\ data.status = "present"
       /\ (~Truthy(data.am_time_in) \/ ~Truthy(data.am_time_out))
       /\ (~Truthy(data.pm_time_in) \/ ~Truthy(data.pm_time_out))
    THEN {"status"} ELSE {}

\* "Validate future dates": 'Cannot enter future dates'.
FutureDateIssue(data, now, tz) ==
    IF DateOfDateOnly(data.date) > TodayLocalMidnight(now, tz)
    THEN {"date"} ELSE {}

\* The superRefine of timeRecordSchema on a candidate whose own fields parse
\* (trainee_id and date non-empty, status one of the four): the paths of the
\* issues it adds.
timeRecordSchema(data, now, tz) ==
    AmOrderIssue(data, tz) \cup PmOrderIssue(data, tz) \cup OverlapIssue(data, tz)
      \cup PresentIssue(data) \cup FutureDateIssue(data, now, tz)

\* ---------------------------------------------------------- traineeSchema
\* !n for an optional number: true of undefined and of 0.
NumberFalsy(n) == n = NULL \/ n = 0

\* The issues z.object({...}) itself adds, by path: min(1) on the strings user_id and
\* start_date (NULL stands for the empty string of an untouched field), min(0) on
\* an hourly_rate given, a number >= 1 for max_weekly_hours, min(1) on a
\* total_required_hours given.
TraineeObjectIssues(data) ==
    {p \in {"user_id"} : data.user_id = NULL}
    \cup {p \in {"start_date"} : data.start_date = NULL}
    \cup {p \in {"hourly_rate"} : data.hourly_rate # NULL /\ data.hourly_rate < 0}
    \cup {p \in {"max_weekly_hours"} :
            data.max_weekly_hours = NULL \/ data.max_weekly_hours < 1}
    \cup {p \in {"total_required_hours"} :
            data.total_required_hours # NULL /\ data.total_required_hours < 1}

\* 'Hourly rate is required for paid interns'
HourlyRateIssue(data) ==
    IF data.trainee_type = "paid_intern" /\ NumberFalsy(data.hourly_rate)
    THEN {"hourly_rate"} ELSE {}

\* 'Total required hours is required for OJT students'
TotalRequiredHoursIssue(data) ==
    IF data.trainee_type = "ojt" /\ NumberFalsy(data.total_required_hours)
    THEN {"total_required_hours"} ELSE {}

\* 'End date must be after start date': dates are day numbers, as new Date orders
\* two date-only strings.
EndDateIssue(data) ==
    IF /\ Truthy(data.end_date) /\ Truthy(data.start_date)
       /\ DateOfDateOnly(data.end_date) <= DateOfDateOnly(data.start_date)
    THEN {"end_date"} ELSE {}

\* traineeSchema.safeParse(data): the paths of the issues.  A missing
\* max_weekly_hours is a type error, which aborts the object parse, and the
\* superRefine then does not run.
traineeSchema(data) ==
    IF data.max_weekly_hours = NULL
    THEN TraineeObjectIssues(data)
    ELSE TraineeObjectIssues(data) \cup HourlyRateIssue(data)
           \cup TotalRequiredHoursIssue(data) \cup EndDateIssue(data)

\* trainees: user_id, trainee_type, max_weekly_hours and start_date are NOT NULL.
trainees_not_null(data) ==
    /\ data.user_id # NULL /\ data.trainee_type # NULL
    /\ data.max_weekly_hours # NULL /\ data.start_date # NULL

\* ----------------------------------------------------------- operations
Statuses == {"present", "half_day_am", "half_day_pm", "absent"}

\* INSERT INTO time_records by the signed-in user uid.
InsertTimeRecord(uid, r) ==
    /\ Cardinality(time_records) < MaxRecords
    /\ InsertPolicy(uid, r)
    /\ RowAdmitted(r, time_records)
    /\ time_records' = time_records \cup {StoredRow(r)}
    /\ summary' = NoSummary
    /\ progress' = NoProgress
    /\ selected' = NoSelection
    /\ UNCHANGED <<seedVars, routeVars>>
    /\ UNCHANGED <<users, trainees, weekly_summaries, current_date, clock, form,
                   issues>>

\* UPDATE time_records SET ... WHERE trainee_id = old.trainee_id AND date = old.date
\* by the signed-in user uid; r carries the row's columns after the SET.
UpdateTimeRecord(uid, old, r) ==
    /\ old \in time_records
    /\ StoredRow(r) # old
    /\ UpdatePolicy(uid, old)
    /\ UpdatePolicy(uid, r)
    /\ RowAdmitted(r, time_records \ {old})
    /\ time_records' = (time_records \ {old}) \cup {StoredRow(r)}
    /\ summary' = NoSummary
    /\ progress' = NoProgress
    /\ selected' = NoSelection
    /\ UNCHANGED <<seedVars, routeVars>>
    /\ UNCHANGED <<users, trainees, weekly_summaries, current_date, clock, form,
                   issues>>

\* SELECT * FROM calculate_weekly_summary(p_trainee_id, p_week_start)
CalculateWeeklySummary(p_trainee_id, p_week_start) ==
    /\ summary' = calculate_weekly_summary(p_trainee_id, p_week_start)
    /\ UNCHANGED <<seedVars, routeVars>>
    /\ UNCHANGED <<users, trainees, weekly_summaries, time_records, current_date,
                   progress, clock, form, issues, selected>>

\* SELECT * FROM time_records by the signed-in user uid: the rows the policy shows.
SelectTimeRecords(uid) ==
    /\ selected' = [uid |-> uid, rows |-> {r \in time_records : SelectPolicy(uid, r)}]
    /\ UNCHANGED <<seedVars, routeVars>>
    /\ UNCHANGED <<users, trainees, time_records, weekly_summaries, current_date, summary,
                   progress, clock, form, issues>>

\* The data-access layer's "persist WeeklySummary": the summary is computed and
\* written to weekly_summaries, replacing the row unique_trainee_week conflicts with.
PersistWeeklySummary(p_trainee_id, p_week_start) ==
    LET s == calculate_weekly_summary(p_trainee_id, p_week_start)
        w == WeeklySummaryRow(s)
        conflicting == {o \in weekly_summaries : ~unique_trainee_week(w, {o})}
    IN  /\ p_trainee_id \in DOMAIN trainees
        /\ weekly_summaries' = (weekly_summaries \ conflicting) \cup {w}
        /\ summary' = s
        /\ UNCHANGED <<seedVars, routeVars>>
        /\ UNCHANGED <<users, trainees, time_records, current_date, progress, clock, form,
                   issues, selected>>

\* SELECT * FROM get_ojt_progress(p_trainee_id); p_trainee_id NULL is the default.
GetOjtProgress(p_trainee_id) ==
    /\ progress' = get_ojt_progress(p_trainee_id)
    /\ UNCHANGED <<seedVars, routeVars>>
    /\ UNCHANGED <<users, trainees, weekly_summaries, time_records, current_date,
                   summary, clock, form, issues, selected>>

\* Midnight passes: CURRENT_DATE is one day later.
AdvanceDate ==
    /\ current_date < MaxToday
    /\ current_date' = current_date + 1
    /\ UNCHANGED <<seedVars, routeVars>>
    /\ UNCHANGED <<users, trainees, weekly_summaries, time_records, summary, progress,
                   clock, form, issues, selected>>

\* timeRecordSchema.safeParse(data) on the validating machine.
SubmitTimeRecord(data) ==
    /\ form' = data
    /\ issues' = timeRecordSchema(data, clock.now, clock.tz)
    /\ UNCHANGED <<seedVars, routeVars>>
    /\ UNCHANGED <<users, trainees, weekly_summaries, time_records, current_date,
                   summary, progress, clock, selected>>

\* traineeSchema.safeParse(data)
SubmitTrainee(data) ==
    /\ form' = data
    /\ issues' = traineeSchema(data)
    /\ UNCHANGED <<seedVars, routeVars>>
    /\ UNCHANGED <<users, trainees, weekly_summaries, time_records, current_date,
                   summary, progress, clock, selected>>

\* ------------------------------------------------------------ seed-admin.ts
\* The script is run at most MaxRuns times, one run after the other.
MaxRuns == 2

\* DEFAULT_ADMIN.email, and an address given with --email.
DefaultAdminEmail == "admin@logcha.com"
Emails == {DefaultAdminEmail, "ops@logcha.com"}

\* authData.user.id: the id the auth service gives the user the n-th run creates.
NewUserId(n) == <<"auth1", "auth2", "auth3", "auth4">>[n]

\* No run of the script has been started. before holds the three tables as the run
\* found them, deleted the result of deleteUser (the code discards it) and company
\* the result of the companies insert.
NoRun ==
    [pc |-> "idle", n |-> 0, email |-> "", user_id |-> "", deleted |-> "none",
     company |-> "none",
     before |-> [auth_users |-> {}, users |-> [id \in {} |-> 0], companies |-> {}]]

NotSeeding ==
    /\ auth_users = {}
    /\ companies = {}
    /\ run = NoRun

\* supabase.from('users').select('email').eq('email', config.email).limit(1)
ExistingUsers(email) == {id \in DOMAIN users : users[id].email = email}

\* The row the script inserts into users.
ProfileRow(email) == [role |-> "company_admin", email |-> email]

\* CREATE TABLE users: id PRIMARY KEY, email UNIQUE, id REFERENCES auth.users(id).
UsersRowAdmitted(id, row) ==
    /\ id \notin DOMAIN users
    /\ ExistingUsers(row.email) = {}
    /\ \E u \in auth_users : u.id = id

\* A mutation of CleanUp: the auth user is left in place.
CleanUpNothing(id) == auth_users

\* supabase.auth.admin.deleteUser(authData.user.id), when it succeeds.
CleanUp(id) == {u \in auth_users : u.id # id}

\* users.id REFERENCES auth.users(id) ON DELETE CASCADE: the profile rows that stay
\* when the auth users left are remaining.
Cascade(remaining) ==
    [id \in {i \in DOMAIN users : \E u \in remaining : u.id = i} |-> users[id]]

\* bun run seed:admin [--email email]: seedAdminUser(config) is entered.
SeedAdminUser(email) ==
    /\ run.pc \in {"idle", "done", "exit1"}
    /\ run.n < MaxRuns
    /\ run' = [pc |-> "check", n |-> run.n + 1, email |-> email, user_id |-> "",
               deleted |-> "none", company |-> "none",
               before |-> [auth_users |-> auth_users, users |-> users,
                           companies |-> companies]]
    /\ UNCHANGED <<users, trainees, time_records, weekly_summaries, current_date,
                   summary, progress, selected, clock, form, issues>>
    /\ UNCHANGED <<auth_users, companies, routeVars>>

\* The check for an existing profile row; checkError is the outcome of the query.
CheckExisting(checkError) ==
    /\ run.pc = "check"
    /\ run' = [run EXCEPT !.pc = IF checkError THEN "exit1"
                                 ELSE IF ExistingUsers(run.email) # {} THEN "done"
                                 ELSE "createUser"]
    /\ UNCHANGED <<users, trainees, time_records, weekly_summaries, current_date,
                   summary, progress, selected, clock, form, issues>>
    /\ UNCHANGED <<auth_users, companies, routeVars>>

\* supabase.auth.admin.createUser: it creates the user ("ok"), fails ("error") or
\* returns no user ("no_user").
CreateUser(outcome) ==
    /\ run.pc = "createUser"
    /\ IF outcome = "ok"
       THEN /\ auth_users' = auth_users \cup {[id |-> NewUserId(run.n), email |-> run.email]}
            /\ run' = [run EXCEPT !.pc = "insertProfile", !.user_id = NewUserId(run.n)]
       ELSE /\ auth_users' = auth_users
            /\ run' = [run EXCEPT !.pc = "exit1"]
    /\ UNCHANGED <<users, trainees, time_records, weekly_summaries, current_date,
                   summary, progress, selected, clock, form, issues>>
    /\ UNCHANGED <<companies, routeVars>>

\* supabase.from('users').insert([...]); profileError is the outcome, and a row the
\* table does not admit is an error.
InsertProfile(profileError) ==
    /\ run.pc = "insertProfile"
    /\ ~profileError => UsersRowAdmitted(run.user_id, ProfileRow(run.email))
    /\ IF profileError
       THEN /\ users' = users
            /\ run' = [run EXCEPT !.pc = "deleteUser"]
       ELSE /\ users' = (run.user_id :> ProfileRow(run.email)) @@ users
            /\ run' = [run EXCEPT !.pc = "insertCompany"]
    /\ UNCHANGED <<trainees, time_records, weekly_summaries, current_date, summary,
                   progress, selected, clock, form, issues>>
    /\ UNCHANGED <<auth_users, companies, routeVars>>

\* The clean-up after a profile error, then the throw into the catch block and
\* process.exit(1); ok is the outcome of deleteUser.
DeleteUser(ok) ==
    /\ run.pc = "deleteUser"
    /\ auth_users' = IF ok THEN CleanUp(run.user_id) ELSE auth_users
    /\ users' = Cascade(auth_users')
    /\ run' = [run EXCEPT !.pc = "exit1", !.deleted = IF ok THEN "ok" ELSE "failed"]
    /\ UNCHANGED <<trainees, time_records, weekly_summaries, current_date, summary,
                   progress, selected, clock, form, issues>>
    /\ UNCHANGED <<companies, routeVars>>

\* supabase.from('companies').insert([...]).select().single(); a companyError is
\* logged as a warning and the run completes.
InsertCompany(companyError) ==
    /\ run.pc = "insertCompany"
    /\ companies' = IF companyError THEN companies
                    ELSE companies \cup {[id |-> Cardinality(companies) + 1,
                                          name |-> "Default Company",
                                          contact_email |-> run.email]}
    /\ run' = [run EXCEPT !.pc = "done",
                          !.company = IF companyError THEN "error" ELSE "ok"]
    /\ UNCHANGED <<users, trainees, time_records, weekly_summaries, current_date,
                   summary, progress, selected, clock, form, issues>>
    /\ UNCHANGED <<auth_users, routeVars>>

\* ---------------------------------------------------------- ProtectedRoute
\* null, of user and of appUser.
JsNull == [null |-> TRUE]

\* UserRole
UserRoles == {"company_admin", "trainee"}

\* The default of redirectTo, and another route a caller may pass.
RedirectTargets == {"/auth/login", "/"}

\* allowedRoles as the callers pass it: the default [] and ['company_admin'].
PropsOfCallers == [allowedRoles : {{}, {"company_admin"}}, redirectTo : RedirectTargets]

\* The values useAuth() returns.
AuthValues ==
    [user : {JsNull, [id |-> "u1"]},
     appUser : {JsNull} \cup [role : UserRoles],
     loading : BOOLEAN]

\* The component has not rendered.
NoRender == [output |-> "none"]

NotMounted ==
    /\ auth = [user |-> JsNull, appUser |-> JsNull, loading |-> TRUE]
    /\ props = [allowedRoles |-> {}, redirectTo |-> "/auth/login"]
    /\ view = NoRender
    /\ effect = FALSE
    /\ pushed = <<>>

\* The values one call of ProtectedRoute closes over.
Closure ==
    [user |-> auth.user, appUser |-> auth.appUser, loading |-> auth.loading,
     allowedRoles |-> props.allowedRoles, redirectTo |-> props.redirectTo]

\* allowedRoles.length > 0 && !allowedRoles.includes(appUser.role)
RoleRefused(c) == c.allowedRoles # {} /\ c.appUser.role \notin c.allowedRoles

\* A mutation of RenderOutput: the role is not looked at.
RenderOutputAnyRole(c) ==
    IF c.loading THEN "spinner"
    ELSE IF c.user = JsNull \/ c.appUser = JsNull THEN "null"
    ELSE "children"

\* What the component returns: the spinner, null or its children.
RenderOutput(c) ==
    IF c.loading THEN "spinner"
    ELSE IF c.user = JsNull \/ c.appUser = JsNull THEN "null"
    ELSE IF RoleRefused(c) THEN "null"
    ELSE "children"

\* The router.push calls of the effect, in order.
EffectPushes(c) ==
    IF c.loading THEN <<>>
    ELSE IF c.user = JsNull \/ c.appUser = JsNull THEN <<c.redirectTo>>
    ELSE IF RoleRefused(c) THEN <<"/unauthorized">>
    ELSE <<>>

\* The auth context changes its value.
AuthStateChange(a) ==
    /\ a # auth
    /\ auth' = a
    /\ UNCHANGED <<users, trainees, time_records, weekly_summaries, current_date,
                   summary, progress, selected, clock, form, issues>>
    /\ UNCHANGED <<seedVars, props, view, effect, pushed>>

\* React calls ProtectedRoute; the effect of the previous render has run. Both
\* callers pass a new allowedRoles array on every render, so the effect's
\* dependencies have changed and it is scheduled again.
Render ==
    /\ ~effect
    /\ view' = [output |-> RenderOutput(Closure), closure |-> Closure]
    /\ effect' = TRUE
    /\ pushed' = <<>>
    /\ UNCHANGED <<users, trainees, time_records, weekly_summaries, current_date,
                   summary, progress, selected, clock, form, issues>>
    /\ UNCHANGED <<seedVars, auth, props>>

\* The useEffect callback of the latest render runs with the values it closed over.
RunEffect ==
    /\ effect
    /\ pushed' = EffectPushes(view.closure)
    /\ effect' = FALSE
    /\ UNCHANGED <<users, trainees, time_records, weekly_summaries, current_date,
                   summary, progress, selected, clock, form, issues>>
    /\ UNCHANGED <<seedVars, auth, props, view>>

\* ------------------------------------------------------------- the store
\* The dates the store runs put records on: the first two days and the last.
RecordDates == {0, 1, MaxDate}

\* The sessions the store runs insert: a morning (08:00-12:10, 4.17 hours) or a
\* full day (08:00-12:00 and 13:00-17:00, 8.00 hours).
StoreSessions == { <<28800, 43800, NULL, NULL>>, <<28800, 43200, 46800, 61200>> }

StoreInputs ==
    { [trainee_id |-> t, date |-> d, am_time_in |-> s[1], am_time_out |-> s[2],
       pm_time_in |-> s[3], pm_time_out |-> s[4], status |-> st] :
      t \in TraineeIds, d \in RecordDates, s \in StoreSessions,
      st \in {"present", "absent"} }

\* Week starts asked for: a Monday (day 0) and a Tuesday (day 1).
WeekStarts == {0, 1}

\* The trainees tables the store runs start from: trainee 1 is any row of
\* TraineeRows, trainee 2 is a paid intern at 75.50 an hour.
TraineeTables ==
    { [t \in TraineeIds |-> IF t = 1 THEN c
                            ELSE [user_id |-> OwnerOf(t), trainee_type |-> "paid_intern",
                                  hourly_rate |-> 7550, max_weekly_hours |-> 6,
                                  total_required_hours |-> NULL, status |-> "active",
                                  company_id |-> 1]] :
      c \in TraineeRows(1) }

\* No form has been submitted; the validating machine's clock is not read.
NoForm == [trainee_id |-> NULL]
NoClock == [now |-> NULL, tz |-> NULL]

Init ==
    /\ trainees \in TraineeTables
    /\ time_records = {}
    /\ current_date = MaxDate
    /\ summary = NoSummary
    /\ progress = NoProgress
    /\ weekly_summaries = {}
    /\ users = DefaultUsers
    /\ NotSeeding
    /\ NotMounted
    /\ selected = NoSelection
    /\ clock = NoClock
    /\ form = NoForm
    /\ issues = {}

Next ==
    \/ \E uid \in Users, r \in StoreInputs : InsertTimeRecord(uid, r)
    \/ \E uid \in Users, old \in time_records, r \in StoreInputs :
          UpdateTimeRecord(uid, old, r)
    \/ \E t \in TraineeIds, ws \in WeekStarts : CalculateWeeklySummary(t, ws)

Spec == Init /\ [][Next]_vars

\* ------------------------------------------------------ the hour columns
\* AM time values of the hour runs: 08:00:00, 08:00:18, 08:10, 12:00.
HourAmTimes == {28800, 28818, 29400, 43200}

\* PM time values of the hour runs: 13:00, 13:10, 17:00.
HourPmTimes == {46800, 47400, 61200}

\* One trainee and one date, every combination of present and absent time fields.
HourInputs ==
    { [trainee_id |-> 1, date |-> 0, am_time_in |-> ai, am_time_out |-> ao,
       pm_time_in |-> pi, pm_time_out |-> po, status |-> "present"] :
      ai \in HourAmTimes \cup {NULL}, ao \in HourAmTimes \cup {NULL},
      pi \in HourPmTimes \cup {NULL}, po \in HourPmTimes \cup {NULL} }

\* The morning-only rows of HourInputs in statements that also name a generated
\* column, with the value 0.00 or 8.00.
HourSuppliedInputs ==
    { (c :> h) @@ r :
      c \in GeneratedColumns, h \in {0, 800},
      r \in {x \in HourInputs : x.pm_time_in = NULL /\ x.pm_time_out = NULL} }

NextHours ==
    \/ \E uid \in Users, r \in HourInputs \cup HourSuppliedInputs :
          InsertTimeRecord(uid, r)
    \/ \E uid \in Users, old \in time_records, r \in HourInputs \cup HourSuppliedInputs :
          UpdateTimeRecord(uid, old, r)

\* One trainees table: the hour columns do not read it.
InitHours ==
    /\ Init
    /\ trainees[1].trainee_type = "ojt"
    /\ trainees[1].hourly_rate = NULL

SpecHours == InitHours /\ [][NextHours]_vars

\* ------------------------------------------------------- the validation
\* Largest day number a submitted form carries.
MaxFormDate == 4

\* Time values of the forms: 08:00, 12:00, 13:00.
FormTimes == {28800, 43200, 46800}

FormInputs ==
    { [trainee_id |-> 1, date |-> d, am_time_in |-> ai, am_time_out |-> ao,
       pm_time_in |-> pi, pm_time_out |-> po, status |-> st] :
      d \in 0..MaxFormDate,
      ai \in FormTimes \cup {NULL}, ao \in FormTimes \cup {NULL},
      pi \in FormTimes \cup {NULL}, po \in FormTimes \cup {NULL}, st \in Statuses }

\* The validating machine's clock: 00:00:00, 12:00:00 or 23:59:59 UTC of day 2, in
\* a zone UTC-12:00, -05:00, +00:00, +05:30, +08:00 or +14:00.
Clocks ==
    { [now |-> 2 * 86400 + c, tz |-> z] :
      c \in {0, 43200, 86399},
      z \in {0 - 43200, 0 - 18000, 0, 19800, 28800, 50400} }

InitValidate ==
    /\ trainees \in TraineeTables
    /\ trainees[1].trainee_type = "ojt"
    /\ trainees[1].hourly_rate = NULL
    /\ time_records = {}
    /\ current_date = MaxDate
    /\ summary = NoSummary
    /\ progress = NoProgress
    /\ weekly_summaries = {}
    /\ users = DefaultUsers
    /\ NotSeeding
    /\ NotMounted
    /\ selected = NoSelection
    /\ clock \in Clocks
    /\ form = NoForm
    /\ issues = {}

\* One form is validated in a run: the validation keeps nothing between calls.
NextValidate == form = NoForm /\ \E data \in FormInputs : SubmitTimeRecord(data)

SpecValidate == InitValidate /\ [][NextValidate]_vars

\* ------------------------------------------------------- the OJT progress
\* The trainees tables the progress runs start from.  Trainee 1 is an ojt trainee
\* or an unpaid intern, active or completed, with total_required_hours NULL, 0, 8
\* or -8 (the column is INTEGER NULL with no CHECK); trainee 2 is an active ojt
\* trainee who has 32 hours to render.
OjtTables ==
    { [t \in TraineeIds |->
         [user_id |-> OwnerOf(t),
          trainee_type |-> IF t = 1 THEN ty ELSE "ojt",
          hourly_rate |-> NULL, max_weekly_hours |-> 6,
          total_required_hours |-> IF t = 1 THEN req ELSE 32,
          status |-> IF t = 1 THEN st ELSE "active", company_id |-> 1]] :
      ty \in {"ojt", "unpaid_intern"}, st \in {"active", "completed"},
      req \in {NULL, 0, 8, 0 - 8} }

\* The records of the progress runs: mornings and full days, all present.
OjtInputs == {r \in StoreInputs : r.status = "present"}

InitOjt ==
    /\ trainees \in OjtTables
    /\ time_records = {}
    /\ current_date = MaxDate
    /\ summary = NoSummary
    /\ progress = NoProgress
    /\ weekly_summaries = {}
    /\ users = DefaultUsers
    /\ NotSeeding
    /\ NotMounted
    /\ selected = NoSelection
    /\ clock = NoClock
    /\ form = NoForm
    /\ issues = {}

NextOjt ==
    \/ \E uid \in Users, r \in OjtInputs : InsertTimeRecord(uid, r)
    \/ \E uid \in Users, old \in time_records, r \in OjtInputs :
          UpdateTimeRecord(uid, old, r)
    \/ \E p_trainee_id \in TraineeIds \cup {NULL} : GetOjtProgress(p_trainee_id)

SpecOjt == InitOjt /\ [][NextOjt]_vars

\* ------------------------------------------------------- the attendance
\* The records of the attendance runs: a morning of 4.17 hours under each of the
\* four statuses (the table does not tie the status to the time fields).
DayInputs ==
    { [trainee_id |-> t, date |-> d, am_time_in |-> 28800, am_time_out |-> 43800,
       pm_time_in |-> NULL, pm_time_out |-> NULL, status |-> st] :
      t \in TraineeIds, d \in RecordDates, st \in Statuses }

\* One trainees table: trainee 1 is an unpaid intern.
InitDays ==
    /\ Init
    /\ trainees[1].trainee_type = "unpaid_intern"
    /\ trainees[1].hourly_rate = NULL

NextDays ==
    \/ \E uid \in Users, r \in DayInputs : InsertTimeRecord(uid, r)
    \/ \E uid \in Users, old \in time_records, r \in DayInputs :
          UpdateTimeRecord(uid, old, r)
    \/ \E t \in TraineeIds, ws \in WeekStarts : CalculateWeeklySummary(t, ws)

SpecDays == InitDays /\ [][NextDays]_vars

\* ------------------------------------------------------ the edit window
\* The dates of the edit-window runs: day 0, day 1 and a day CURRENT_DATE never
\* reaches.
EditDates == {0, 1, MaxToday + 1}

\* The sessions of the edit-window runs: a morning 08:00-12:10, that morning with
\* an afternoon 12:00-17:00 that starts before the morning ends, and no time at all.
EditSessions ==
    { <<28800, 43800, NULL, NULL>>, <<28800, 43800, 43200, 61200>>,
      <<NULL, NULL, NULL, NULL>> }

EditInputs ==
    { [trainee_id |-> t, date |-> d, am_time_in |-> s[1], am_time_out |-> s[2],
       pm_time_in |-> s[3], pm_time_out |-> s[4], status |-> "present"] :
      t \in TraineeIds, d \in EditDates, s \in EditSessions }

\* The store on day MaxDate, then the days that follow.
InitEdit == InitDays

NextEdit ==
    \/ \E uid \in Users, r \in EditInputs : InsertTimeRecord(uid, r)
    \/ \E uid \in Users, old \in time_records, r \in EditInputs :
          UpdateTimeRecord(uid, old, r)
    \/ AdvanceDate

SpecEdit == InitEdit /\ [][NextEdit]_vars

\* ------------------------------------------------ the trainee validation
\* Candidate trainee configurations: every type; hourly_rate absent, 0, 75.50 or
\* -1.00; max_weekly_hours absent, 0 or 40; total_required_hours absent, 0 or 500;
\* start_date empty or day 5; end_date absent or day 4, 5 or 6.
TraineeForms ==
    [user_id : {NULL, 1}, trainee_type : TraineeTypes,
     hourly_rate : {NULL, 0, 7550, 0 - 100},
     max_weekly_hours : {NULL, 0, 40},
     total_required_hours : {NULL, 0, 500},
     start_date : {NULL, 5}, end_date : {NULL, 4, 5, 6}]

InitTrainee == InitDays

\* One candidate is validated in a run: the validation keeps nothing between calls.
NextTrainee == form = NoForm /\ \E data \in TraineeForms : SubmitTrainee(data)

SpecTrainee == InitTrainee /\ [][NextTrainee]_vars

\* --------------------------------------------------- the summary cache
\* The records of the cache runs: trainee 1's mornings and full days, all present.
CacheInputs == {r \in StoreInputs : r.trainee_id = 1 /\ r.status = "present"}

\* One trainees table: both trainees are paid interns at 75.50 an hour.
InitCache ==
    /\ Init
    /\ trainees[1].trainee_type = "paid_intern"
    /\ trainees[1].hourly_rate # NULL

NextCache ==
    \/ \E uid \in Users, r \in CacheInputs : InsertTimeRecord(uid, r)
    \/ \E uid \in Users, old \in time_records, r \in CacheInputs :
          UpdateTimeRecord(uid, old, r)
    \/ \E t \in TraineeIds, ws \in WeekStarts : PersistWeeklySummary(t, ws)

SpecCache == InitCache /\ [][NextCache]_vars

\* ------------------------------------------------------- the policies
\* The users tables of the policy runs: u2 is a trainee or a company admin.
PolicyUsers ==
    { [DefaultUsers EXCEPT !["u2"].role = role] : role \in {"trainee", "company_admin"} }

\* Trainee 1 is an unpaid intern of company 1; trainee 2 is of company 1 or 2.
InitPolicy ==
    /\ users \in PolicyUsers
    /\ NotSeeding
    /\ NotMounted
    /\ \E c \in {1, 2} :
          trainees = [t \in TraineeIds |->
                        IF t = 1
                        THEN [user_id |-> OwnerOf(1), trainee_type |-> "unpaid_intern",
                              hourly_rate |-> NULL, max_weekly_hours |-> 6,
                              total_required_hours |-> NULL, status |-> "active",
                              company_id |-> 1]
                        ELSE [user_id |-> OwnerOf(2), trainee_type |-> "paid_intern",
                              hourly_rate |-> 7550, max_weekly_hours |-> 6,
                              total_required_hours |-> NULL, status |-> "active",
                              company_id |-> c]]
    /\ time_records = {}
    /\ weekly_summaries = {}
    /\ current_date = MaxDate
    /\ summary = NoSummary
    /\ progress = NoProgress
    /\ selected = NoSelection
    /\ clock = NoClock
    /\ form = NoForm
    /\ issues = {}

NextPolicy ==
    \/ \E uid \in Users, r \in DayInputs : InsertTimeRecord(uid, r)
    \/ \E uid \in Users, old \in time_records, r \in DayInputs :
          UpdateTimeRecord(uid, old, r)
    \/ \E uid \in Users : SelectTimeRecords(uid)

SpecPolicy == InitPolicy /\ [][NextPolicy]_vars

\* ------------------------------------------------------ the route guard
\* The database is not used.
InitRoute ==
    /\ users = DefaultUsers
    /\ trainees = [t \in {} |-> 0]
    /\ time_records = {}
    /\ weekly_summaries = {}
    /\ current_date = MaxDate
    /\ summary = NoSummary
    /\ progress = NoProgress
    /\ selected = NoSelection
    /\ clock = NoClock
    /\ form = NoForm
    /\ issues = {}
    /\ NotSeeding
    /\ auth \in AuthValues
    /\ props \in PropsOfCallers
    /\ view = NoRender
    /\ effect = FALSE
    /\ pushed = <<>>

NextRoute ==
    \/ \E a \in AuthValues : AuthStateChange(a)
    \/ Render
    \/ RunEffect

SpecRoute == InitRoute /\ [][NextRoute]_vars

\* ------------------------------------------------------- the seed script
\* The auth user and the profile row of an admin seeded before.
SeededAuthUser == [id |-> "auth0", email |-> DefaultAdminEmail]
SeededUsers == [id \in {"auth0"} |-> ProfileRow(DefaultAdminEmail)]

\* The tables the script finds: empty, an auth user without a profile row, or the
\* admin of an earlier seeding.
InitSeed ==
    /\ \/ auth_users = {} /\ users = [id \in {} |-> 0]
       \/ auth_users = {SeededAuthUser} /\ users = [id \in {} |-> 0]
       \/ auth_users = {SeededAuthUser} /\ users = SeededUsers
    /\ companies = {}
    /\ run = NoRun
    /\ trainees = [t \in {} |-> 0]
    /\ time_records = {}
    /\ weekly_summaries = {}
    /\ current_date = MaxDate
    /\ summary = NoSummary
    /\ progress = NoProgress
    /\ selected = NoSelection
    /\ clock = NoClock
    /\ form = NoForm
    /\ issues = {}
    /\ NotMounted

NextSeed ==
    \/ \E email \in Emails : SeedAdminUser(email)
    \/ \E checkError \in BOOLEAN : CheckExisting(checkError)
    \/ \E outcome \in {"ok", "error", "no_user"} : CreateUser(outcome)
    \/ \E profileError \in BOOLEAN : InsertProfile(profileError)
    \/ \E ok \in BOOLEAN : DeleteUser(ok)
    \/ \E companyError \in BOOLEAN : InsertCompany(companyError)

SpecSeed == InitSeed /\ [][NextSeed]_vars

\* ================================================================ claims
\* A call of calculate_weekly_summary has returned and the table has not changed since.
SummaryReturned == summary.p_trainee_id # NULL

\* The trainee row the returned summary is about.
SummaryTrainee == trainees[summary.p_trainee_id]

\* max_weekly_hours of that trainee in hundredths of an hour.
SummaryCap == SummaryTrainee.max_weekly_hours * 100

\* C1: for a paid_intern or unpaid_intern the summary's billable_hours is
\* min(total_hours_worked, max_weekly_hours), so never above max_weekly_hours; for
\* an ojt trainee billable_hours is total_hours_worked, uncapped.
C1_BillableHours ==
    SummaryReturned =>
        IF SummaryTrainee.trainee_type \in {"paid_intern", "unpaid_intern"}
        THEN /\ summary.billable_hours <= SummaryCap
             /\ summary.billable_hours <= summary.total_hours_worked
             /\ \/ summary.billable_hours = SummaryCap
                \/ summary.billable_hours = summary.total_hours_worked
        ELSE summary.billable_hours = summary.total_hours_worked

\* C1 witness: an unpaid intern worked more than max_weekly_hours in the week and
\* the summary bills exactly max_weekly_hours.
C1_Witness ==
    /\ SummaryReturned
    /\ SummaryTrainee.trainee_type = "unpaid_intern"
    /\ summary.total_hours_worked > SummaryCap
    /\ summary.billable_hours = SummaryCap

\* C2: gross_pay is billable_hours x hourly_rate for a paid_intern (max_weekly_hours
\* x hourly_rate once total_hours_worked exceeds max_weekly_hours; NULL, as any SQL
\* product with it, when hourly_rate is NULL), and exactly 0 for an unpaid_intern or
\* ojt trainee, whatever the hours and the hourly_rate.
C2_GrossPay ==
    SummaryReturned =>
        IF SummaryTrainee.trainee_type = "paid_intern"
        THEN IF SummaryTrainee.hourly_rate = NULL
             THEN summary.gross_pay = NULL
             ELSE /\ summary.gross_pay
                       = summary.billable_hours * SummaryTrainee.hourly_rate
                  /\ summary.total_hours_worked > SummaryCap
                       => summary.gross_pay = SummaryCap * SummaryTrainee.hourly_rate
        ELSE summary.gross_pay = 0

\* C2 witness: a paid intern with an hourly_rate worked more than max_weekly_hours
\* and is paid for max_weekly_hours.
C2_Witness ==
    /\ SummaryReturned
    /\ SummaryTrainee.trainee_type = "paid_intern"
    /\ SummaryTrainee.hourly_rate # NULL
    /\ summary.total_hours_worked > SummaryCap
    /\ summary.gross_pay = SummaryCap * SummaryTrainee.hourly_rate
    /\ summary.gross_pay > 0

\* total_hours of trainee t's record dated d, 0 when there is none.
HoursOn(t, d) ==
    IF \E r \in time_records : r.trainee_id = t /\ r.date = d
    THEN (CHOOSE r \in time_records : r.trainee_id = t /\ r.date = d).total_hours
    ELSE 0

\* Hours of trainee t on the days from, from + 1, ..., from + more.
RECURSIVE HoursFrom(_, _, _)
HoursFrom(t, from, more) ==
    IF more = 0 THEN HoursOn(t, from)
    ELSE HoursOn(t, from + more) + HoursFrom(t, from, more - 1)

\* C3: total_hours_worked is the uncapped sum of total_hours over the trainee's own
\* records dated week_start .. week_start + 6, both ends included, from the date
\* supplied (Monday or not); no other record contributes.
C3_TotalHoursWorked ==
    SummaryReturned =>
        summary.total_hours_worked
          = HoursFrom(summary.p_trainee_id, summary.p_week_start, 6)

\* C3 witness: the week asked for starts on a Tuesday; the trainee's record on its
\* last day (start + 6) is the whole total, the one dated before the start is not in it.
C3_Witness ==
    /\ SummaryReturned
    /\ summary.p_week_start % 7 # 0
    /\ \E r \in time_records, o \in time_records :
          /\ r.trainee_id = summary.p_trainee_id
          /\ r.date = summary.p_week_start + 6
          /\ o.trainee_id = summary.p_trainee_id
          /\ o.date < summary.p_week_start
          /\ o.total_hours > 0
          /\ summary.total_hours_worked = r.total_hours

\* h hundredths is seconds/3600 hours rounded half-up to two decimals:
\* h - 1/2 <= seconds / 36 < h + 1/2.
IsHoursRoundedHalfUp(h, seconds) ==
    /\ 72 * h - 36 <= 2 * seconds
    /\ 2 * seconds < 72 * h + 36

\* The stored hours of one session agree with its two endpoints.
SessionHoursRight(time_in, time_out, hours) ==
    IF time_in # NULL /\ time_out # NULL
    THEN time_out > time_in => IsHoursRoundedHalfUp(hours, time_out - time_in)
    ELSE hours = 0

\* C4: in every stored record, a session with both endpoints and time_out > time_in
\* has hours = its duration in hours rounded half-up to 2 decimals, and a session
\* with an endpoint missing has hours = 0.
C4_SessionHours ==
    \A r \in time_records :
        /\ SessionHoursRight(r.am_time_in, r.am_time_out, r.am_hours)
        /\ SessionHoursRight(r.pm_time_in, r.pm_time_out, r.pm_hours)

\* C4 witness: 08:00:00-08:00:18 (0.005 hours, a tie) is stored as
\* 0.01 next to a PM session with no time_out, stored as 0.
C4_Witness ==
    \E r \in time_records :
        /\ r.am_time_in = 28800 /\ r.am_time_out = 28818 /\ r.am_hours = 1
        /\ r.pm_time_in # NULL /\ r.pm_time_out = NULL /\ r.pm_hours = 0

\* A TIME value at minute resolution, or none.
WholeMinute(time) == time = NULL \/ time % 60 = 0

\* C5 (as claimed): in every record whose times are whole minutes, the stored
\* total_hours is the stored am_hours plus the stored pm_hours.
C5_TotalIsSumOfStored ==
    \A r \in time_records :
        /\ WholeMinute(r.am_time_in) /\ WholeMinute(r.am_time_out)
        /\ WholeMinute(r.pm_time_in) /\ WholeMinute(r.pm_time_out)
        => r.total_hours = r.am_hours + r.pm_hours

\* A form has been submitted and validated.
Submitted == form.trainee_id # NULL

\* C6: the validation reports InvalidSessionOrder(am) (the issue on am_time_out)
\* exactly when am_time_in and am_time_out are both present and am_time_out <=
\* am_time_in, and InvalidSessionOrder(pm) (the issue on pm_time_out) exactly when
\* both PM endpoints are present and pm_time_out <= pm_time_in.
C6_InvalidSessionOrder ==
    Submitted =>
        /\ "am_time_out" \in issues
             <=> /\ form.am_time_in # NULL /\ form.am_time_out # NULL
                 /\ form.am_time_out <= form.am_time_in
        /\ "pm_time_out" \in issues
             <=> /\ form.pm_time_in # NULL /\ form.pm_time_out # NULL
                 /\ form.pm_time_out <= form.pm_time_in

\* C6 witness: am_time_in = am_time_out is reported for AM while a PM session with
\* no time_out is not reported.
C6_Witness ==
    /\ Submitted
    /\ form.am_time_in # NULL /\ form.am_time_out = form.am_time_in
    /\ form.pm_time_in # NULL /\ form.pm_time_out = NULL
    /\ "am_time_out" \in issues
    /\ "pm_time_out" \notin issues

\* C7: the validation reports SessionOverlap (the issue on pm_time_in) exactly when
\* am_time_out and pm_time_in are both present and pm_time_in <= am_time_out,
\* whether or not am_time_in and pm_time_out are present.
C7_SessionOverlap ==
    Submitted =>
        ("pm_time_in" \in issues
           <=> /\ form.am_time_out # NULL /\ form.pm_time_in # NULL
               /\ form.pm_time_in <= form.am_time_out)

\* C7 witness: a PM session starting the minute the AM session ends is reported,
\* with am_time_in and pm_time_out both missing.
C7_Witness ==
    /\ Submitted
    /\ form.am_time_in = NULL /\ form.pm_time_out = NULL
    /\ form.am_time_out # NULL /\ form.pm_time_in = form.am_time_out
    /\ "pm_time_in" \in issues

\* Both endpoints of a session are present.
Complete(time_in, time_out) == time_in # NULL /\ time_out # NULL

\* C8: the validation reports IncompleteSessionForPresent (the issue on status)
\* exactly when status is present and neither the AM pair nor the PM pair is
\* complete; never for half_day_am, half_day_pm or absent.
C8_IncompleteSessionForPresent ==
    Submitted =>
        ("status" \in issues
           <=> /\ form.status = "present"
               /\ ~Complete(form.am_time_in, form.am_time_out)
               /\ ~Complete(form.pm_time_in, form.pm_time_out))

\* C8 witness: status present with AM 08:00-12:00 only is not reported.
C8_Witness ==
    /\ Submitted
    /\ form.status = "present"
    /\ form.am_time_in = 28800 /\ form.am_time_out = 43200
    /\ form.pm_time_in = NULL /\ form.pm_time_out = NULL
    /\ issues \cap {"status", "am_time_out", "pm_time_out", "pm_time_in"} = {}

\* The calendar date on the validating machine: the business today.
LocalToday == (clock.now + clock.tz) \div 86400

\* C9: at every clock time and zone offset, a record dated after the local today is
\* rejected with FutureDateNotAllowed (the issue on date).
C9_FutureDateRejected ==
    Submitted /\ form.date > LocalToday => "date" \in issues

\* C9 witness: on a machine west of UTC, tomorrow's date is rejected.
C9_Witness ==
    /\ Submitted
    /\ clock.tz < 0
    /\ form.date = LocalToday + 1
    /\ "date" \in issues

\* C10 (as claimed): at every clock time and zone offset, a record dated the local
\* today or earlier is not rejected with FutureDateNotAllowed.
C10_TodayAccepted ==
    Submitted /\ form.date <= LocalToday => "date" \notin issues

\* The rules a submitted candidate violates, each named by the path of its issue:
\* AM order, PM order, overlap, a session for present, and a date after the local
\* today.
ViolatedRules ==
    {p \in {"am_time_out"} :
        /\ Complete(form.am_time_in, form.am_time_out)
        /\ form.am_time_out <= form.am_time_in}
    \cup {p \in {"pm_time_out"} :
        /\ Complete(form.pm_time_in, form.pm_time_out)
        /\ form.pm_time_out <= form.pm_time_in}
    \cup {p \in {"pm_time_in"} :
        /\ form.am_time_out # NULL /\ form.pm_time_in # NULL
        /\ form.pm_time_in <= form.am_time_out}
    \cup {p \in {"status"} :
        /\ form.status = "present"
        /\ ~Complete(form.am_time_in, form.am_time_out)
        /\ ~Complete(form.pm_time_in, form.pm_time_out)}
    \cup {p \in {"date"} : form.date > LocalToday}

\* C11 (as claimed): the validation evaluates the five rules in one pass and the
\* errors it returns are exactly the rules the candidate violates, one per rule,
\* none when no rule is violated.
C11_AllViolatedRules ==
    Submitted => issues = ViolatedRules

\* A session of the row has both endpoints and does not end after it starts.
Reversed(r) ==
    \/ Complete(r.am_time_in, r.am_time_out) /\ r.am_time_out <= r.am_time_in
    \/ Complete(r.pm_time_in, r.pm_time_out) /\ r.pm_time_out <= r.pm_time_in

\* C12: a row with a session whose time_out <= time_in is refused by every insert and
\* every update, whoever issues it, so every stored record has am_hours >= 0,
\* pm_hours >= 0 and total_hours >= 0.
C12_HoursNeverNegative ==
    /\ \A tr \in time_records :
          /\ ~Reversed(tr)
          /\ tr.am_hours >= 0 /\ tr.pm_hours >= 0 /\ tr.total_hours >= 0
    /\ \A uid \in Users, r \in HourInputs :
          Reversed(r) =>
             /\ ~ENABLED InsertTimeRecord(uid, r)
             /\ \A old \in time_records : ~ENABLED UpdateTimeRecord(uid, old, r)

\* C12 witness: a record with positive hours is stored and its owner's update that
\* moves am_time_out before am_time_in, which would compute negative am_hours, is
\* refused although the same update with the times in order is accepted.
C12_Witness ==
    \E old \in time_records, r \in HourInputs :
        /\ old.am_hours > 0
        /\ Complete(r.am_time_in, r.am_time_out) /\ r.am_time_out < r.am_time_in
        /\ r.pm_time_in = NULL /\ r.pm_time_out = NULL
        /\ am_hours(r) < 0
        /\ ~ENABLED UpdateTimeRecord(OwnerOf(1), old, r)
        /\ ENABLED UpdateTimeRecord(OwnerOf(1), old,
                      [r EXCEPT !.am_time_in = r.am_time_out,
                                !.am_time_out = r.am_time_in])

\* The trainee is an ojt trainee with status active.
ActiveOjt(t) == trainees[t].trainee_type = "ojt" /\ trainees[t].status = "active"

\* total_required_hours of the trainee is present and positive.
RequiredHoursValid(t) ==
    trainees[t].total_required_hours # NULL /\ trainees[t].total_required_hours > 0

\* The sum of total_hours over every record of the trainee, whatever its date.
HoursRendered(t) == HoursFrom(t, 0, MaxDate)

\* pct, in hundredths of a percent, is rendered / required * 100 rounded to two
\* decimals, a tie going up.
IsPercentageRounded(pct, rendered, required) ==
    /\ 2 * pct * required - required <= 200 * rendered
    /\ 200 * rendered < 2 * pct * required + required

\* C13: for an active ojt trainee with total_required_hours > 0 a returned progress
\* row has hours_rendered = the sum of total_hours over all the trainee's records
\* (0 with none), remaining_hours = total_required_hours - hours_rendered, not
\* clamped, and completion_percentage = round(rendered / required * 100, 2), which
\* is 100.00 when the two are equal; the call for that trainee alone returns the row.
C13_OjtProgress ==
    progress.called =>
        /\ \A row \in progress.rows :
              RequiredHoursValid(row.trainee_id) =>
                 /\ ActiveOjt(row.trainee_id)
                 /\ row.hours_rendered = HoursRendered(row.trainee_id)
                 /\ row.hours_rendered >= 0
                 /\ row.remaining_hours + row.hours_rendered
                      = 100 * trainees[row.trainee_id].total_required_hours
                 /\ IsPercentageRounded(row.completion_percentage, row.hours_rendered,
                                        trainees[row.trainee_id].total_required_hours)
                 /\ row.remaining_hours = 0 <=> row.completion_percentage = 10000
        /\ \A t \in TraineeIds :
              progress.p_trainee_id = t /\ ActiveOjt(t) /\ RequiredHoursValid(t) =>
                 /\ ~progress.failed
                 /\ \E row \in progress.rows : row.trainee_id = t

\* C13 witness: a trainee with 8 hours to render has rendered more; the row has a
\* negative remaining_hours and a completion_percentage above 100.00.
C13_Witness ==
    /\ progress.called
    /\ \E row \in progress.rows :
          /\ trainees[row.trainee_id].total_required_hours = 8
          /\ row.hours_rendered > 800
          /\ row.remaining_hours < 0
          /\ row.completion_percentage > 10000

\* C14 (as claimed): for an ojt trainee whose total_required_hours is missing, 0 or
\* negative the progress computation fails; no row is returned for such a trainee,
\* so none with a null remaining_hours or completion_percentage.
C14_InvalidConfigFails ==
    progress.called =>
        /\ \A row \in progress.rows :
              /\ RequiredHoursValid(row.trainee_id)
              /\ row.remaining_hours # NULL
              /\ row.completion_percentage # NULL
        /\ \A t \in OjtSelected(progress.p_trainee_id) :
              ~RequiredHoursValid(t) => progress.failed

\* get_ojt_progress() was called without a trainee id.
BatchCalled == progress.called /\ progress.p_trainee_id = NULL

\* The rows are one per active ojt trainee and none for another; each carries the
\* sum of the trainee's own records, 0 without records, and is the row the call
\* for that trainee alone returns.
OneRowPerActiveOjt(rows) ==
    /\ {row.trainee_id : row \in rows} = {t \in TraineeIds : ActiveOjt(t)}
    /\ Cardinality(rows) = Cardinality({t \in TraineeIds : ActiveOjt(t)})
    /\ \A row \in rows :
          /\ row.hours_rendered = HoursRendered(row.trainee_id)
          /\ (\A tr \in time_records : tr.trainee_id # row.trainee_id)
                => row.hours_rendered = 0
          /\ get_ojt_progress(row.trainee_id).rows = {row}

\* C18 (as claimed): batch mode returns exactly one result per active ojt trainee
\* and none for any other, each with the trainee's own hours_rendered, equal to the
\* single-trainee result; an active ojt trainee without records appears with 0.
C18_BatchOjtProgress ==
    BatchCalled => OneRowPerActiveOjt(progress.rows)

\* C18 (amended): the batch call fails as a whole, returning no row, exactly when
\* some active ojt trainee has total_required_hours = 0; otherwise its rows are as
\* claimed.
C18_BatchOjtProgressUnlessZero ==
    BatchCalled =>
        /\ progress.failed
             <=> \E t \in TraineeIds :
                    ActiveOjt(t) /\ trainees[t].total_required_hours = 0
        /\ progress.failed => progress.rows = {}
        /\ ~progress.failed => OneRowPerActiveOjt(progress.rows)

\* C18 witness: trainee 1, an ojt trainee who completed, has records; the batch
\* call returns the one row of trainee 2, who has none, with hours_rendered = 0.
C18_Witness ==
    /\ BatchCalled
    /\ trainees[1].trainee_type = "ojt" /\ trainees[1].status = "completed"
    /\ \E tr \in time_records : tr.trainee_id = 1
    /\ \A tr \in time_records : tr.trainee_id # 2
    /\ Cardinality(progress.rows) = 1
    /\ \A row \in progress.rows : row.trainee_id = 2 /\ row.hours_rendered = 0

\* C15 (as claimed): for a paid_intern whose hourly_rate is missing the weekly
\* summary fails; no summary is returned for such a trainee, so none with a null,
\* zero or defaulted gross_pay.
C15_MissingRateFails ==
    SummaryReturned =>
        ~(SummaryTrainee.trainee_type = "paid_intern" /\ SummaryTrainee.hourly_rate = NULL)

\* The trainee of the returned summary has no record dated in the week asked for.
NoRecordInWeek ==
    \A tr \in time_records :
        ~(/\ tr.trainee_id = summary.p_trainee_id
          /\ tr.date >= summary.p_week_start
          /\ tr.date <= summary.p_week_start + 6)

\* C17 (as claimed): for every trainee type, the summary of a week in which the
\* trainee has no record is returned with total_hours_worked = 0,
\* billable_hours = 0, gross_pay = 0 and days_present = 0.
C17_EmptyWeekAllZero ==
    SummaryReturned /\ NoRecordInWeek =>
        /\ summary.total_hours_worked = 0
        /\ summary.billable_hours = 0
        /\ summary.gross_pay = 0
        /\ summary.days_present = 0

\* 1 when trainee t has a record dated d whose status is present, half_day_am or
\* half_day_pm, 0 otherwise.
PresentOn(t, d) ==
    IF \E r \in time_records :
          /\ r.trainee_id = t /\ r.date = d
          /\ r.status \in {"present", "half_day_am", "half_day_pm"}
    THEN 1 ELSE 0

\* PresentOn summed over the dates from .. from + more.
RECURSIVE PresentFrom(_, _, _)
PresentFrom(t, from, more) ==
    IF more = 0 THEN PresentOn(t, from)
    ELSE PresentOn(t, from + more) + PresentFrom(t, from, more - 1)

\* C16: days_present is the number of the trainee's records dated in the week whose
\* status is present, half_day_am or half_day_pm, each counted once; a record with
\* status absent is not counted.
C16_DaysPresent ==
    SummaryReturned =>
        summary.days_present
          = PresentFrom(summary.p_trainee_id, summary.p_week_start, 6)

\* C16 witness: the trainee has an absent record and a half_day_am record in the
\* week, and days_present is 1.
C16_Witness ==
    /\ SummaryReturned
    /\ \E a \in time_records, h \in time_records :
          /\ InWeek(a, summary.p_trainee_id, summary.p_week_start)
          /\ InWeek(h, summary.p_trainee_id, summary.p_week_start)
          /\ a.status = "absent"
          /\ h.status = "half_day_am"
    /\ summary.days_present = 1

\* Some row of rows has the trainee_id and the date of r.
KeyTaken(r, rows) == \E o \in rows : o.trainee_id = r.trainee_id /\ o.date = r.date

\* C20: there is at most one stored record per (trainee_id, date), and every insert
\* of a row whose (trainee_id, date) is taken, and every update that moves a row
\* onto the (trainee_id, date) of another, is refused, whoever issues it.
C20_OneRecordPerTraineeDate ==
    /\ \A a \in time_records, b \in time_records :
          a.trainee_id = b.trainee_id /\ a.date = b.date => a = b
    /\ \A uid \in Users, r \in DayInputs :
          /\ KeyTaken(r, time_records) => ~ENABLED InsertTimeRecord(uid, r)
          /\ \A old \in time_records :
                KeyTaken(r, time_records \ {old})
                   => ~ENABLED UpdateTimeRecord(uid, old, r)

\* C20 witness: a trainee has records on two dates; the owner's update of one of
\* them to the date of the other is refused, while the same update to a free date
\* is accepted.
C20_Witness ==
    \E old \in time_records, o \in time_records, d \in RecordDates :
        /\ old.trainee_id = o.trainee_id /\ old.date # o.date
        /\ d # old.date /\ d # o.date
        /\ LET r == [trainee_id |-> old.trainee_id, date |-> o.date,
                     am_time_in |-> old.am_time_in, am_time_out |-> old.am_time_out,
                     pm_time_in |-> old.pm_time_in, pm_time_out |-> old.pm_time_out,
                     status |-> old.status]
           IN  /\ r \in DayInputs
               /\ ~ENABLED UpdateTimeRecord(OwnerOf(old.trainee_id), old, r)
               /\ ENABLED UpdateTimeRecord(OwnerOf(old.trainee_id), old,
                                           [r EXCEPT !.date = d])

\* C21 (as claimed): every stored time record has pm_time_in > am_time_out when both
\* are present, a complete session when its status is present, and a date that is
\* not after the current date.
C21_StoredRecordsValid ==
    \A tr \in time_records :
        /\ (tr.pm_time_in # NULL /\ tr.am_time_out # NULL) => tr.pm_time_in > tr.am_time_out
        /\ tr.status = "present"
             => \/ Complete(tr.am_time_in, tr.am_time_out)
                \/ Complete(tr.pm_time_in, tr.pm_time_out)
        /\ tr.date <= current_date

\* The date is one of the last 7 days of the current date, the current date included.
InLast7Days(date) == date >= current_date - 7 /\ date <= current_date

\* C23 (as claimed): an update of a time record succeeds only while the record's
\* date is within the last 7 days of the current date, and only when the date it
\* gives the record is within them too; so once the current date has advanced more
\* than 7 days past a record's date, no update of it succeeds.
C23_EditWindow ==
    \A uid \in Users, old \in time_records, r \in EditInputs :
        ENABLED UpdateTimeRecord(uid, old, r)
           => InLast7Days(old.date) /\ InLast7Days(r.date)

\* The statement's row without the generated columns it names.
WithoutGenerated(r) == [f \in DOMAIN r \ GeneratedColumns |-> r[f]]

\* C22: every stored record's am_hours, pm_hours and total_hours are the hour
\* computation applied to the record's current time fields, and every insert or
\* update that names one of the three columns with a value is refused.
C22_HoursAlwaysDerived ==
    /\ \A tr \in time_records :
          /\ tr.am_hours = am_hours(tr)
          /\ tr.pm_hours = pm_hours(tr)
          /\ tr.total_hours = total_hours(tr)
    /\ \A uid \in Users, r \in HourSuppliedInputs :
          /\ ~ENABLED InsertTimeRecord(uid, r)
          /\ \A old \in time_records : ~ENABLED UpdateTimeRecord(uid, old, r)

\* C22 witness: a morning of 4.00 hours is stored; the owner's update to 08:00-08:10
\* that also sets am_hours = 8.00 is refused, while the same update without the
\* column is accepted and would store 0.17.
C22_Witness ==
    \E old \in time_records, r \in HourSuppliedInputs :
        /\ old.am_hours = 400
        /\ "am_hours" \in DOMAIN r /\ r.am_hours = 800
        /\ r.am_time_in = 28800 /\ r.am_time_out = 29400
        /\ am_hours(WithoutGenerated(r)) = 17
        /\ ~ENABLED UpdateTimeRecord(OwnerOf(1), old, r)
        /\ ENABLED UpdateTimeRecord(OwnerOf(1), old, WithoutGenerated(r))

\* A trainee configuration has been submitted and validated.
TraineeSubmitted == "trainee_type" \in DOMAIN form

\* The fields the claims put no condition on are valid: user_id and start_date are
\* given, max_weekly_hours is at least 1, and an hourly_rate or total_required_hours
\* that is given is within its own range.
OtherFieldsValid ==
    /\ form.user_id # NULL /\ form.start_date # NULL
    /\ form.max_weekly_hours # NULL /\ form.max_weekly_hours >= 1
    /\ form.hourly_rate # NULL => form.hourly_rate >= 0
    /\ form.total_required_hours # NULL => form.total_required_hours >= 1

\* C24 (as claimed): a candidate is accepted exactly when paid_intern implies
\* hourly_rate present and >= 0 (0 included), ojt implies total_required_hours
\* present and > 0, and end_date, if set, is strictly after start_date.
C24_TraineeConfigAccepted ==
    TraineeSubmitted /\ OtherFieldsValid =>
        (issues = {}
           <=> /\ form.trainee_type = "paid_intern"
                    => form.hourly_rate # NULL /\ form.hourly_rate >= 0
               /\ form.trainee_type = "ojt"
                    => form.total_required_hours # NULL /\ form.total_required_hours > 0
               /\ form.end_date # NULL => form.end_date > form.start_date)

\* C25 (as claimed): an ojt configuration without max_weekly_hours, its other fields
\* valid, is accepted by the validation and by the trainees table.
C25_OjtWithoutMaxWeeklyHours ==
    /\ TraineeSubmitted
    /\ form.trainee_type = "ojt" /\ form.max_weekly_hours = NULL
    /\ form.user_id # NULL /\ form.start_date # NULL /\ form.end_date = NULL
    /\ form.hourly_rate = NULL
    /\ form.total_required_hours # NULL /\ form.total_required_hours >= 1
    => issues = {} /\ trainees_not_null(form)

\* The stored summary row w carries the aggregate of the trainee's current records
\* of its week.
IsCurrentAggregate(w) ==
    LET total == HoursFrom(w.trainee_id, w.week_start_date, 6)
        cap == trainees[w.trainee_id].max_weekly_hours * 100
        billable == IF total <= cap THEN total ELSE cap
    IN  /\ w.total_hours_worked = total
        /\ w.billable_hours = billable
        /\ 100 * w.gross_pay - 50 <= billable * trainees[w.trainee_id].hourly_rate
        /\ billable * trainees[w.trainee_id].hourly_rate < 100 * w.gross_pay + 50
        /\ w.days_present = PresentFrom(w.trainee_id, w.week_start_date, 6)

RecordOfUser(uid, r) == trainees[r.trainee_id].user_id = uid

\* C27: for a user whose role is trainee, the rows a SELECT returns are records of
\* the user's own trainee row, an insert succeeds only for a record of the user's
\* own trainee row, an update only on such a record and only into such a record,
\* and no record is deletable.
C27_TraineeTouchesOwnRecordsOnly ==
    /\ (selected.uid \in Users /\ users[selected.uid].role = "trainee")
          => \A r \in selected.rows : RecordOfUser(selected.uid, r)
    /\ \A uid \in Users :
          users[uid].role = "trainee" =>
             /\ \A r \in DayInputs :
                   /\ ENABLED InsertTimeRecord(uid, r) => RecordOfUser(uid, r)
                   /\ \A old \in time_records :
                         ENABLED UpdateTimeRecord(uid, old, r)
                            => RecordOfUser(uid, old) /\ RecordOfUser(uid, r)
             /\ \A r \in time_records : ~DeletePolicy(uid, r)

\* C27 witness: both trainees have a record; the trainee u1 selects and is shown
\* the own record only, and can neither insert a record for trainee 2 nor update
\* trainee 2's record, while u2, a company admin in the same company, is shown u1's
\* record.
C27_Witness ==
    /\ selected.uid = "u1" /\ users["u1"].role = "trainee"
    /\ users["u2"].role = "company_admin"
    /\ \E mine \in time_records, other \in time_records :
          /\ mine.trainee_id = 1 /\ other.trainee_id = 2
          /\ mine \in selected.rows /\ other \notin selected.rows
          /\ SelectPolicy("u2", mine)
          /\ \A r \in DayInputs :
                r.trainee_id = 2 =>
                   /\ ~ENABLED InsertTimeRecord("u1", r)
                   /\ ~ENABLED UpdateTimeRecord("u1", other, r)
          /\ \E r \in DayInputs : ENABLED UpdateTimeRecord("u1", mine, r)

\* total_hours of the record of trainee t on day d when its status is absent
\* (absent = TRUE) or is not (absent = FALSE); 0 when there is no such record.
StatusHoursOn(t, d, absent) ==
    LET rows == {r \in time_records :
                    /\ r.trainee_id = t /\ r.date = d
                    /\ (r.status = "absent") = absent}
    IN  IF rows = {} THEN 0 ELSE (CHOOSE r \in rows : TRUE).total_hours

\* The same over the days from, from + 1, ..., from + more.
RECURSIVE StatusHoursFrom(_, _, _, _)
StatusHoursFrom(t, from, more, absent) ==
    IF more = 0 THEN StatusHoursOn(t, from, absent)
    ELSE StatusHoursOn(t, from + more, absent) + StatusHoursFrom(t, from, more - 1, absent)

\* The absent records of the week the returned summary is about.
AbsentInWeek ==
    {r \in time_records :
        /\ InWeek(r, summary.p_trainee_id, summary.p_week_start)
        /\ r.status = "absent"}

\* C28: the hours of the week's absent records are summed with those of the other
\* records into total_hours_worked, enter billable_hours (capped for an intern) and
\* the gross_pay of a paid intern, and the absent records are not among
\* days_present.
C28_AbsentHoursAreSummed ==
    SummaryReturned =>
        LET t == summary.p_trainee_id
            ws == summary.p_week_start
            hours == StatusHoursFrom(t, ws, 6, TRUE) + StatusHoursFrom(t, ws, 6, FALSE)
            capped == IF hours <= SummaryCap THEN hours ELSE SummaryCap
        IN  /\ summary.total_hours_worked = hours
            /\ summary.billable_hours
                 = IF SummaryTrainee.trainee_type = "ojt" THEN hours ELSE capped
            /\ SummaryTrainee.trainee_type = "paid_intern"
                  => summary.gross_pay = capped * SummaryTrainee.hourly_rate
            /\ summary.days_present + Cardinality(AbsentInWeek)
                 = Cardinality({r \in time_records : InWeek(r, t, ws)})

\* C28 witness: every record of the paid intern's week is absent and one of them has
\* a complete morning; the summary has days_present = 0 with hours and pay.
C28_Witness ==
    /\ SummaryReturned
    /\ \E r \in AbsentInWeek : r.am_time_in # NULL /\ r.am_time_out # NULL
                                 /\ r.total_hours > 0
    /\ summary.days_present = 0
    /\ summary.total_hours_worked > 0
    /\ summary.billable_hours > 0
    /\ summary.gross_pay > 0

\* The component has rendered; the values that render closed over.
HasRendered == view # NoRender

\* user and appUser are both present in the values the latest render closed over.
BothPresent == view.closure.user # JsNull /\ view.closure.appUser # JsNull

\* allowedRoles is empty or contains appUser.role, for a present appUser.
RoleAllowed ==
    \/ view.closure.allowedRoles = {}
    \/ view.closure.appUser.role \in view.closure.allowedRoles

\* C29: the children are rendered exactly when loading is false, user and appUser
\* are present and allowedRoles is empty or contains appUser.role, and the spinner
\* or nothing otherwise; with loading false, once the effect has run, a missing user
\* or appUser has pushed redirectTo and not /unauthorized, and a present user with a
\* role not allowed has pushed /unauthorized and not redirectTo.
C29_ProtectedRoute ==
    HasRendered =>
        /\ view.output = "children"
              <=> (~view.closure.loading /\ BothPresent /\ RoleAllowed)
        /\ view.output # "children" => view.output \in {"spinner", "null"}
        /\ (~effect /\ ~view.closure.loading /\ ~BothPresent)
              => pushed = <<view.closure.redirectTo>>
        /\ (~effect /\ ~view.closure.loading /\ BothPresent /\ ~RoleAllowed)
              => pushed = <<"/unauthorized">>

\* C29 witness: a trainee is signed in on the page for company admins; nothing is
\* rendered and the effect has pushed /unauthorized.
C29_Witness ==
    /\ HasRendered
    /\ ~effect
    /\ ~view.closure.loading
    /\ BothPresent
    /\ view.closure.appUser.role = "trainee"
    /\ view.closure.allowedRoles = {"company_admin"}
    /\ view.output = "null"
    /\ pushed = <<"/unauthorized">>

\* The run of the script has ended, by returning or by process.exit(1).
SeedFinished == run.pc \in {"done", "exit1"}

\* A users row with the configured email existed when the run started.
ProfileExisted ==
    \E id \in DOMAIN run.before.users : run.before.users[id].email = run.email

\* The auth users this run created that exist, and the users rows it inserted.
CreatedAuthUsers == auth_users \ run.before.auth_users
InsertedProfiles == DOMAIN users \ DOMAIN run.before.users

\* C30: when a run has ended, if a users row with the configured email existed it
\* changed none of auth.users, users and companies; otherwise, unless deleteUser
\* failed, an auth user of this run exists if and only if its company_admin profile
\* row was inserted, and nothing that was there is gone; and after a failed insert
\* of the default company the admin's auth user and profile row are there.
C30_NoHalfCreatedAdmin ==
    SeedFinished =>
        /\ ProfileExisted =>
              /\ auth_users = run.before.auth_users
              /\ users = run.before.users
              /\ companies = run.before.companies
        /\ (~ProfileExisted /\ run.deleted # "failed") =>
              /\ Cardinality(CreatedAuthUsers) <= 1
              /\ \A u \in CreatedAuthUsers :
                    /\ u.id \in InsertedProfiles
                    /\ users[u.id] = [role |-> "company_admin", email |-> run.email]
              /\ \A id \in InsertedProfiles : \E u \in CreatedAuthUsers : u.id = id
              /\ run.before.auth_users \subseteq auth_users
              /\ \A id \in DOMAIN run.before.users :
                    id \in DOMAIN users /\ users[id] = run.before.users[id]
        /\ run.company = "error" =>
              /\ CreatedAuthUsers # {}
              /\ InsertedProfiles # {}

\* C30 witness: the second run found no profile row for its email, created the auth
\* user, failed to insert the profile and deleted the auth user again, leaving the
\* tables as it found them.
C30_Witness ==
    /\ SeedFinished
    /\ run.n = 2
    /\ ~ProfileExisted
    /\ run.user_id # ""
    /\ run.deleted = "ok"
    /\ CreatedAuthUsers = {}
    /\ InsertedProfiles = {}
    /\ auth_users = run.before.auth_users

====
